---- MODULE Spec2Model ----
(***************************************************************************)
(* Model of the PDF report generator (generateReport) of the repository:   *)
(* the derived statistics, the page-by-page drawing sequence on a PDFKit   *)
(* document (with PDFKit's automatic page break when a text line would     *)
(* pass the bottom of the page), the recommendation rules and the final    *)
(* promise.                                                                *)
(*                                                                         *)
(* Lengths are in units of 1/10000 pt, so that every cursor position the   *)
(* code computes (line heights, moveDown fractions) is an integer.         *)
(***************************************************************************)
EXTENDS Integers, Sequences, FiniteSets, TLC

VARIABLES followerHistory, topPosts, pc, stats, doc, recommendations, idx, chartY,
          result, buffers, pdfBuffer,
          calls, request, handler, metrics, responses

\* the state of one generateReport call
reportVars == <<followerHistory, topPosts, pc, stats, doc, recommendations, idx, chartY,
                result, buffers, pdfBuffer>>

\* the state of one HTTP request: the handler, fetchMetrics and the integrations
serviceVars == <<request, handler, metrics, responses>>

vars == <<reportVars, calls, serviceVars>>

(***************************************************************************)
(* Bounds of the explored inputs.                                          *)
(***************************************************************************)
\* longest follower history / post list explored with every combination of values
MaxHist == 2
MaxPosts == 2
\* longest follower history explored for the page layout (uniform values)
LongHist == 63
\* longest post list explored for the page layout (uniform values)
ManyPosts == 15
\* number of generateReport calls in flight together
NCalls == 2
\* most pages of a document of the calls in flight together
MaxCallPages == 5
\* most media edges of an Instagram reply
MaxEdges == 4
\* the follower counts a profile page can show
FollowerCounts == {0, 49, 120, 3000}

(***************************************************************************)
(* JavaScript numbers: a rational n/d in lowest terms (d > 0), NaN,        *)
(* +/-Infinity (n is the sign), or the value undefined.                    *)
(***************************************************************************)
Abs(i) == IF i < 0 THEN -i ELSE i

RECURSIVE GCD(_, _)
GCD(a, b) == IF b = 0 THEN a ELSE GCD(b, a % b)

NaN == [k |-> "nan", n |-> 0, d |-> 1]

Undefined == [k |-> "undef", n |-> 0, d |-> 1]

Inf(sign) == [k |-> "inf", n |-> sign, d |-> 1]

Rat(n, d) ==
  LET s == IF d < 0 THEN -1 ELSE 1
      g == GCD(Abs(n), Abs(d))
  IN  [k |-> "num", n |-> (s * n) \div g, d |-> (s * d) \div g]

Num(i) == [k |-> "num", n |-> i, d |-> 1]

Zero == Num(0)

IsNum(v) == v.k = "num"

Sign(v) == IF v.n > 0 THEN 1 ELSE IF v.n < 0 THEN -1 ELSE 0

\* a - b
JsSub(a, b) ==
  IF IsNum(a) /\ IsNum(b) THEN Rat(a.n * b.d - b.n * a.d, a.d * b.d)
  ELSE IF a.k = "inf" /\ IsNum(b) THEN a
  ELSE IF IsNum(a) /\ b.k = "inf" THEN Inf(-b.n)
  ELSE IF a.k = "inf" /\ b.k = "inf" /\ a.n # b.n THEN a
  ELSE NaN

\* a + b
JsAdd(a, b) ==
  IF IsNum(a) /\ IsNum(b) THEN Rat(a.n * b.d + b.n * a.d, a.d * b.d)
  ELSE IF a.k = "inf" /\ IsNum(b) THEN a
  ELSE IF IsNum(a) /\ b.k = "inf" THEN b
  ELSE IF a.k = "inf" /\ b.k = "inf" /\ a.n = b.n THEN a
  ELSE NaN

\* a * b
JsMul(a, b) ==
  IF IsNum(a) /\ IsNum(b) THEN Rat(a.n * b.n, a.d * b.d)
  ELSE IF a.k \in {"num", "inf"} /\ b.k \in {"num", "inf"}
    THEN IF Sign(a) * Sign(b) = 0 THEN NaN ELSE Inf(Sign(a) * Sign(b))
  ELSE NaN

\* a / b (a finite number divided by zero is an infinity, 0/0 is NaN)
JsDiv(a, b) ==
  IF IsNum(a) /\ IsNum(b)
    THEN IF b.n # 0 THEN Rat(a.n * b.d, a.d * b.n)
         ELSE IF a.n = 0 THEN NaN ELSE Inf(Sign(a))
  ELSE IF a.k = "inf" /\ IsNum(b) THEN Inf(IF Sign(b) < 0 THEN -a.n ELSE a.n)
  ELSE IF IsNum(a) /\ b.k = "inf" THEN Zero
  ELSE NaN

\* a < b (false whenever an operand is NaN or undefined)
JsLt(a, b) ==
  IF IsNum(a) /\ IsNum(b) THEN a.n * b.d < b.n * a.d
  ELSE IF a.k = "inf" /\ IsNum(b) THEN a.n < 0
  ELSE IF IsNum(a) /\ b.k = "inf" THEN b.n > 0
  ELSE IF a.k = "inf" /\ b.k = "inf" THEN a.n < b.n
  ELSE FALSE

JsGt(a, b) == JsLt(b, a)

\* a <= b (false whenever an operand is NaN or undefined)
JsLe(a, b) ==
  /\ a.k \in {"num", "inf"}
  /\ b.k \in {"num", "inf"}
  /\ ~JsLt(b, a)

\* the truthiness of a value used as a condition
JsTruthy(v) == (IsNum(v) /\ v.n # 0) \/ v.k = "inf"

\* Math.round: the nearest integer, halves rounded up; NaN and infinities unchanged
MathRound(v) ==
  IF IsNum(v) THEN Num((2 * v.n + v.d) \div (2 * v.d))
  ELSE IF v.k = "inf" THEN v
  ELSE NaN

\* a method call on a value (toFixed, toString, toLocaleString) throws on undefined
CanCallMethod(v) == v.k # "undef"

(***************************************************************************)
(* Derived statistics (generateReport, first block).                       *)
(***************************************************************************)
\* counts[i] for a 0-based index i, undefined outside the array
At(counts, i) == IF i >= 0 /\ i < Len(counts) THEN Num(counts[i + 1]) ELSE Undefined

RECURSIVE SumLikes(_)
SumLikes(posts) ==
  IF posts = <<>> THEN 0 ELSE Head(posts).likes + SumLikes(Tail(posts))

RECURSIVE SumComments(_)
SumComments(posts) ==
  IF posts = <<>> THEN 0 ELSE Head(posts).comments + SumComments(Tail(posts))

\* faulty variant of Growth: the zero guard tests endCount instead of startCount
Growth_GuardOnEnd(startCount, endCount) ==
  IF JsTruthy(endCount)
    THEN JsMul(JsDiv(JsSub(endCount, startCount), startCount), Num(100))
    ELSE Zero

Growth(startCount, endCount) ==
  IF JsTruthy(startCount)
    THEN JsMul(JsDiv(JsSub(endCount, startCount), startCount), Num(100))
    ELSE Zero

TotalNewFollowers(startCount, endCount) == JsSub(endCount, startCount)

DailyGrowth(n, totalNewFollowers) ==
  IF n > 1 THEN JsDiv(totalNewFollowers, Num(n - 1)) ELSE Zero

Average(total, n) == IF n # 0 THEN JsDiv(Num(total), Num(n)) ELSE Zero

\* faulty variant of EngagementRate: the endCount > 0 guard is missing
EngagementRate_NoAudienceGuard(endCount, nPosts, totalLikes, totalComments) ==
  IF nPosts > 0
    THEN JsMul(JsDiv(Num(totalLikes + totalComments),
                     JsMul(Num(nPosts), endCount)), Num(100))
    ELSE Zero

EngagementRate(endCount, nPosts, totalLikes, totalComments) ==
  IF JsGt(endCount, Zero) /\ nPosts > 0
    THEN JsMul(JsDiv(Num(totalLikes + totalComments),
                     JsMul(Num(nPosts), endCount)), Num(100))
    ELSE Zero

CommentLikeRatio(totalLikes, totalComments) ==
  IF totalLikes > 0
    THEN JsMul(JsDiv(Num(totalComments), Num(totalLikes)), Num(100))
    ELSE Zero

\* faulty variant of NumDays: counts.length instead of counts.length - 1
NumDays_CountsLength(n) == IF n > 1 THEN n ELSE 1

NumDays(n) == IF n > 1 THEN n - 1 ELSE 1

GrowthSlope(numDays, startCount, endCount) ==
  IF numDays > 0 THEN JsDiv(JsSub(endCount, startCount), Num(numDays)) ELSE Zero

Forecast(endCount, growthSlope, days) ==
  MathRound(JsAdd(endCount, JsMul(growthSlope, Num(days))))

DerivedStats(history, posts) ==
  LET startCount == At(history, 0)
      endCount == At(history, Len(history) - 1)
      totalNewFollowers == TotalNewFollowers(startCount, endCount)
      totalLikes == SumLikes(posts)
      totalComments == SumComments(posts)
      growthSlope == GrowthSlope(NumDays(Len(history)), startCount, endCount)
  IN  [startCount |-> startCount,
       endCount |-> endCount,
       growth |-> Growth(startCount, endCount),
       totalNewFollowers |-> totalNewFollowers,
       dailyGrowth |-> DailyGrowth(Len(history), totalNewFollowers),
       totalLikes |-> totalLikes,
       totalComments |-> totalComments,
       avgLikes |-> Average(totalLikes, Len(posts)),
       avgComments |-> Average(totalComments, Len(posts)),
       engagementRate |-> EngagementRate(endCount, Len(posts), totalLikes, totalComments),
       commentLikeRatio |-> CommentLikeRatio(totalLikes, totalComments),
       growthSlope |-> growthSlope,
       forecast30 |-> Forecast(endCount, growthSlope, 30),
       forecast90 |-> Forecast(endCount, growthSlope, 90)]

NoStats == [computed |-> FALSE]

(***************************************************************************)
(* The PDFKit document: the pages drawn so far (each the sequence of its   *)
(* drawing operations), the text cursor y, and the current font and size.  *)
(* The document is created with size A4 and margin 0, so a page's text     *)
(* area ends at the page height.                                           *)
(***************************************************************************)
\* A4 page height, 841.89 pt
PageHeight == 8418900
\* line height of Helvetica and of Helvetica-Bold per point of font size
HelveticaLine == 11560
HelveticaBoldLine == 11900
\* cardMarginX, cardMarginY (pt)
CardMargin == 50
\* 1 pt
Pt == 10000
\* A4 page width, 595.28 pt
PageWidth == 5952800
\* cardWidth
CardWidth == PageWidth - CardMargin * 2 * Pt

Op(kind, sec) == [op |-> kind, sec |-> sec]

\* a chunk of PDF bytes the document pushes to its readable side: the file
\* header, the content of a finished page, the trailer (xref and catalog)
Chunk(kind, n) == [kind |-> kind, n |-> n]

\* new PDFDocument: the header is written, the first page is the current page
NewDocument ==
  [pages |-> << <<>> >>, y |-> 0, bold |-> FALSE, size |-> 12,
   out |-> <<Chunk("header", 0)>>]

LineHeight(d) == d.size * (IF d.bold THEN HelveticaBoldLine ELSE HelveticaLine)

PutOp(d, o) == [d EXCEPT !.pages[Len(d.pages)] = Append(@, o)]

\* drawBackgroundAndCard: gradient, ellipse and card on the current page, then
\* the text cursor is reset inside the card
DrawBackgroundAndCard(d) ==
  [PutOp(d, Op("frame", "frame")) EXCEPT !.y = (CardMargin + 40) * Pt]

\* doc.addPage(): a new current page, cursor at the top margin, then the
\* 'pageAdded' listener draws the frame
\* (pages are not buffered: the page left behind is written out)
AddPage(d) ==
  DrawBackgroundAndCard([d EXCEPT !.pages = Append(@, <<>>), !.y = 0,
                                  !.out = Append(@, Chunk("page", Len(d.pages)))])

\* doc.end(): the last page and the trailer are written out
EndOfDocument(d) ==
  [d EXCEPT !.out = @ \o <<Chunk("page", Len(d.pages)), Chunk("trailer", 0)>>]

\* does a text line at the cursor pass the bottom of the page
Overflows(d) == d.y + LineHeight(d) > PageHeight

\* one line of flowing text: PDFKit continues on a new page when the line does
\* not fit above the bottom of the page
RECURSIVE FlowLines(_, _)
FlowLines(d, lines) ==
  IF lines = 0 THEN d
  ELSE LET d1 == IF Overflows(d) THEN AddPage(d) ELSE d
       IN  FlowLines([d1 EXCEPT !.y = @ + LineHeight(d1)], lines - 1)

\* doc.text(...) at the cursor: the text starts on the page where its first
\* line fits and takes `lines` lines
Text(d, o, lines) ==
  LET d1 == IF Overflows(d) THEN AddPage(d) ELSE d
  IN  FlowLines(PutOp(d1, o), lines)

\* doc.text(str, x, y, ...): the cursor is moved to y first
TextAt(d, y, o, lines) == Text([d EXCEPT !.y = y], o, lines)

\* doc.moveDown(tenths / 10)
MoveDown(d, tenths) == [d EXCEPT !.y = @ + (LineHeight(d) * tenths) \div 10]

Font(d, bold) == [d EXCEPT !.bold = bold]

FontSize(d, size) == [d EXCEPT !.size = size]

SetY(d, y) == [d EXCEPT !.y = y]

\* a vector drawing operation (path, rect, fill, stroke): no cursor movement
Vector(d, o) == PutOp(d, o)

(***************************************************************************)
(* Recommendation rules and title truncation.                              *)
(***************************************************************************)
\* the character U+2026 appended to a truncated title
Ellipsis == 8230
\* titles longer than this are truncated, to TitleKeep characters and the ellipsis
TitleLimit == 50
TitleKeep == 47

\* faulty variant of GrowthMessage: growthSlope < 0 instead of growthSlope <= 0
GrowthMessage_StrictSlope(growthSlope, dailyGrowth) ==
  IF JsLt(growthSlope, Zero) THEN "flat"
  ELSE IF JsLt(dailyGrowth, Num(5)) THEN "modest"
  ELSE "strong"

GrowthMessage(growthSlope, dailyGrowth) ==
  IF JsLe(growthSlope, Zero) THEN "flat"
  ELSE IF JsLt(dailyGrowth, Num(5)) THEN "modest"
  ELSE "strong"

\* faulty variant of EngagementMessages: the thresholds 1 and 5 are inclusive
EngagementMessages_Inclusive(engagementRate) ==
  IF JsLe(engagementRate, Num(1)) THEN <<"low">>
  ELSE IF JsLe(Num(5), engagementRate) THEN <<"high">>
  ELSE <<>>

EngagementMessages(engagementRate) ==
  IF JsLt(engagementRate, Num(1)) THEN <<"low">>
  ELSE IF JsGt(engagementRate, Num(5)) THEN <<"high">>
  ELSE <<>>

CommentMessage(commentLikeRatio) ==
  IF JsLt(commentLikeRatio, Num(10)) THEN "comments_low" ELSE "balance"

\* faulty variant of Recommendations: the closing message is pushed before the
\* comment-ratio message
Recommendations_ClosingFirst(s) ==
  <<GrowthMessage(s.growthSlope, s.dailyGrowth)>>
    \o EngagementMessages(s.engagementRate)
    \o <<"closing", CommentMessage(s.commentLikeRatio)>>
Recommendations(s) ==
  <<GrowthMessage(s.growthSlope, s.dailyGrowth)>>
    \o EngagementMessages(s.engagementRate)
    \o <<CommentMessage(s.commentLikeRatio), "closing">>

\* faulty variant of Truncate: keeps 50 characters before the ellipsis
Truncate_KeepLimit(title) ==
  IF Len(title) > TitleLimit
    THEN Append(SubSeq(title, 1, TitleLimit), Ellipsis)
    ELSE title

\* title.length > 50 ? title.slice(0, 47) + ellipsis : title
Truncate(title) ==
  IF Len(title) > TitleLimit
    THEN Append(SubSeq(title, 1, TitleKeep), Ellipsis)
    ELSE title

\* the growth chart and the bar chart are drawn only under these conditions
ChartGuard(history) == Len(history) > 1

\* faulty variant of BarChartGuard: the chart is drawn for an empty list too
BarChartGuard_Always(posts) == Len(posts) >= 0

BarChartGuard(posts) == Len(posts) > 0

(***************************************************************************)
(* Inputs.  A title is a string of character codes or null; the characters *)
(* of the explored titles are pairwise different, so that a truncation is  *)
(* visible in the result.                                                  *)
(***************************************************************************)
Title(n) == [isNull |-> FALSE, chars |-> [i \in 1..n |-> i]]

NullTitle == [isNull |-> TRUE, chars |-> <<>>]

Post(title, likes, comments) == [title |-> title, likes |-> likes, comments |-> comments]

SeqsUpTo(S, n) == UNION {[1..m -> S] : m \in 0..n}

Counts == {0, 98, 100, 200}

ValuePosts == {Post(Title(3), l, c) : l \in {0, 1, 6}, c \in {0, 4}}

\* every short history with every short post list
ValueInputs ==
  {[h |-> h, p |-> p] : h \in SeqsUpTo(Counts, MaxHist), p \in SeqsUpTo(ValuePosts, MaxPosts)}

\* titles around the truncation limit, and a null title
TitleInputs ==
  {[h |-> h, p |-> <<Post(t, 1, 0)>>] :
     h \in {<<>>, <<100, 200>>},
     t \in {Title(n) : n \in {0, TitleKeep, TitleLimit - 1, TitleLimit, TitleLimit + 1, 60}}
           \cup {NullTitle}}

\* a steadily growing history and a list of like posts, of the given lengths
RampHistory(n) == [i \in 1..n |-> 1000 + 10 * i]

LikePosts(n) == [i \in 1..n |-> Post(Title(10), 100 + i, 10)]

LayoutInputs ==
  {[h |-> RampHistory(n), p |-> LikePosts(m)] :
     n \in {0, 1, 31, LongHist - 20, LongHist - 1, LongHist},
     m \in {0, 1, 5, ManyPosts - 1, ManyPosts}}

\* with histories whose extremes are not at their ends, and a flat one
Inputs ==
  ValueInputs \cup TitleInputs \cup LayoutInputs
  \cup {[h |-> h, p |-> <<>>] : h \in {<<100, 200, 98>>, <<5, 5, 5>>, <<200, 0, 150, 0>>}}

\* no call, no request and no bundle yet
NoCalls == <<>>
NoRequest == [method |-> "none"]
NoMetrics == [fetched |-> FALSE, rejected |-> FALSE]

Init ==
  /\ \E inp \in Inputs :
       /\ followerHistory = inp.h
       /\ topPosts = inp.p
  /\ pc = "start"
  /\ stats = NoStats
  /\ doc = [pages |-> <<>>, y |-> 0, bold |-> FALSE, size |-> 12, out |-> <<>>]
  /\ recommendations = <<>>
  /\ idx = 0
  /\ chartY = 0
  /\ result = "pending"
  /\ buffers = <<>>
  /\ pdfBuffer = <<>>
  /\ calls = NoCalls
  /\ request = NoRequest
  /\ handler = [pc |-> "idle", bodyRead |-> FALSE, generated |-> "no"]
  /\ metrics = NoMetrics
  /\ responses = <<>>

(***************************************************************************)
(* generateReport, step by step.  An exception thrown by a step rejects    *)
(* the promise of the async function: result "threw".                      *)
(***************************************************************************)
Throw ==
  /\ pc' = "done"
  /\ result' = "threw"
  /\ UNCHANGED <<followerHistory, topPosts, stats, doc, recommendations, idx, chartY,
                 buffers, pdfBuffer, calls, serviceVars>>

ComputeStats ==
  /\ pc = "start"
  /\ stats' = DerivedStats(followerHistory, topPosts)
  /\ pc' = "create"
  /\ UNCHANGED <<followerHistory, topPosts, doc, recommendations, idx, chartY, result, buffers, pdfBuffer, calls, serviceVars>>

\* new PDFDocument, doc.font('Helvetica'), the frame of the first page.  The
\* logo is read through __dirname inside try/catch; the file is an ES module,
\* where __dirname is not defined, so logoBuffer stays undefined.
CreateDocument ==
  /\ pc = "create"
  /\ doc' = DrawBackgroundAndCard(Font(NewDocument, FALSE))
  /\ pc' = "header"
  /\ UNCHANGED <<followerHistory, topPosts, stats, recommendations, idx, chartY, result, buffers, pdfBuffer, calls, serviceVars>>

HeaderDrawn(d) ==
  LET d1 == TextAt(FontSize(d, 12), (CardMargin + 26) * Pt, Op("text", "date"), 1)
      d2 == TextAt(FontSize(Font(d1, TRUE), 28), (CardMargin + 60) * Pt,
                   Op("text", "title"), 1)
      d3 == Text(FontSize(Font(MoveDown(d2, 2), FALSE), 16), Op("text", "subtitle"), 1)
  IN  SetY(d3, d3.y + 20 * Pt)

DrawHeader ==
  /\ pc = "header"
  /\ doc' = HeaderDrawn(doc)
  /\ pc' = "summary"
  /\ UNCHANGED <<followerHistory, topPosts, stats, recommendations, idx, chartY, result, buffers, pdfBuffer, calls, serviceVars>>

SummaryDrawn(d, s) ==
  LET d1 == MoveDown(Text(FontSize(d, 16), Op("heading", "summary"), 1), 3)
      d2 == FontSize(Font(d1, FALSE), 12)
      d3 == Text(d2, [op |-> "text", sec |-> "summary",
                      args |-> <<s.startCount, s.endCount, s.growth>>], 1)
      d4 == Text(d3, [op |-> "text", sec |-> "summary",
                      args |-> <<s.totalNewFollowers, s.dailyGrowth>>], 1)
      d5 == Text(d4, [op |-> "text", sec |-> "summary",
                      args |-> <<s.avgLikes, s.avgComments>>], 1)
  IN  MoveDown(d5, 12)

DrawSummary ==
  /\ pc = "summary"
  /\ IF /\ CanCallMethod(stats.growth)
        /\ CanCallMethod(stats.dailyGrowth)
        /\ CanCallMethod(stats.avgLikes)
        /\ CanCallMethod(stats.avgComments)
       THEN /\ doc' = SummaryDrawn(doc, stats)
            /\ pc' = "chart"
            /\ UNCHANGED <<followerHistory, topPosts, stats, recommendations, idx, chartY, result, buffers, pdfBuffer, calls, serviceVars>>
       ELSE Throw

\* chartHeight, chartWidth and marginX of the growth chart (pt)
GrowthChartHeight == 220
GrowthChartWidth == 450
GrowthChartMargin == 50

\* chartX of the growth chart: the chart and its margin centred in the card
GrowthChartX ==
  CardMargin * Pt + (CardWidth - (GrowthChartMargin + GrowthChartWidth) * Pt) \div 2

\* Math.min(...counts) and Math.max(...counts) of a non-empty history
MinCount(history) ==
  CHOOSE c \in {history[i] : i \in 1..Len(history)} :
    \A i \in 1..Len(history) : c <= history[i]

MaxCount(history) ==
  CHOOSE c \in {history[i] : i \in 1..Len(history)} :
    \A i \in 1..Len(history) : c >= history[i]

\* faulty variant of YRange: without the default of 1
YRange_NoDefault(minCount, maxCount) == Num(maxCount - minCount)
\* const yRange = maxCount - minCount || 1
YRange(minCount, maxCount) ==
  IF maxCount - minCount # 0 THEN Num(maxCount - minCount) ELSE Num(1)

\* x of sample idx: chartX + marginX + xStep * idx, xStep = chartWidth / (length - 1)
PointX(length, i) ==
  JsAdd(Num(GrowthChartX + GrowthChartMargin * Pt),
        JsMul(JsDiv(Num(GrowthChartWidth * Pt), Num(length - 1)), Num(i)))

\* y of a sample: chartY + chartHeight - normalized * chartHeight
PointY(history, count, y0) ==
  LET normalized == JsDiv(Num(count - MinCount(history)),
                          YRange(MinCount(history), MaxCount(history)))
  IN  JsSub(Num(y0 + GrowthChartHeight * Pt), JsMul(normalized, Num(GrowthChartHeight * Pt)))

\* a straight line of an axis
Line(sec, x1, y1, x2, y2) ==
  [op |-> "axis", sec |-> sec, x1 |-> x1, y1 |-> y1, x2 |-> x2, y2 |-> y2]

\* the polyline of the growth chart: one path point per sample
ChartPoints(d, history, y0) ==
  [d EXCEPT !.pages[Len(d.pages)] =
     @ \o [i \in 1..Len(history) |->
             [op |-> "point", sec |-> "growth", i |-> i - 1, count |-> history[i],
              x |-> PointX(Len(history), i - 1), y |-> PointY(history, history[i], y0)]]]

GrowthChartDrawn(d, history) ==
  LET d1 == MoveDown(Text(FontSize(Font(d, TRUE), 16), Op("heading", "growth"), 1), 5)
      y0 == d1.y
      left == GrowthChartX + GrowthChartMargin * Pt
      bottom == y0 + GrowthChartHeight * Pt
      d2 == Vector(Vector(d1, Line("growth", left, y0, left, bottom)),
                   Line("growth", left, bottom, left + GrowthChartWidth * Pt, bottom))
      d3 == TextAt(FontSize(d2, 8), y0 - 4 * Pt, Op("label", "growth"), 1)
      d4 == TextAt(d3, y0 + (GrowthChartHeight - 8) * Pt, Op("label", "growth"), 1)
      d5 == TextAt(d4, y0 + (GrowthChartHeight + 4) * Pt, Op("label", "growth"), 1)
      d6 == TextAt(d5, y0 + (GrowthChartHeight + 4) * Pt, Op("label", "growth"), 1)
      d7 == Vector(ChartPoints(d6, history, y0), Op("stroke", "growth"))
  IN  SetY(d7, y0 + (GrowthChartHeight + 60) * Pt)

\* if (followerHistory.length > 1) { ... }: followerHistory[0].date throws when
\* the history is empty
DrawGrowthChart ==
  /\ pc = "chart"
  /\ ChartGuard(followerHistory)
  /\ IF Len(followerHistory) > 0
       THEN /\ doc' = GrowthChartDrawn(doc, followerHistory)
            /\ pc' = "page2"
            /\ UNCHANGED <<followerHistory, topPosts, stats, recommendations, idx, chartY, result, buffers, pdfBuffer, calls, serviceVars>>
       ELSE Throw

SkipGrowthChart ==
  /\ pc = "chart"
  /\ ~ChartGuard(followerHistory)
  /\ pc' = "page2"
  /\ UNCHANGED <<followerHistory, topPosts, stats, doc, recommendations, idx, chartY, result, buffers, pdfBuffer, calls, serviceVars>>

\* doc.addPage() and the heading of the follower history table
AddPage2 ==
  /\ pc = "page2"
  /\ doc' = MoveDown(Text(FontSize(AddPage(doc), 16), Op("heading", "history"), 1), 4)
  /\ idx' = 1
  /\ pc' = "rows"
  /\ UNCHANGED <<followerHistory, topPosts, stats, recommendations, chartY, result, buffers, pdfBuffer, calls, serviceVars>>

\* one iteration of followerHistory.forEach: a table row
DrawHistoryRow ==
  /\ pc = "rows"
  /\ idx <= Len(followerHistory)
  /\ doc' = Text(FontSize(Font(doc, FALSE), 10),
                 [op |-> "row", sec |-> "history", count |-> followerHistory[idx]], 1)
  /\ idx' = idx + 1
  /\ UNCHANGED <<followerHistory, topPosts, pc, stats, recommendations, chartY, result, buffers, pdfBuffer, calls, serviceVars>>

\* chartHeight of the bar chart (pt)
BarChartHeight == 180

\* barWidth and barGap (pt)
BarWidth == 30
BarGap == 20

\* totalBarChartWidth
TotalBarChartWidth(n) == n * (2 * BarWidth + BarGap) * Pt

\* chartX of the bar chart: the groups of bars centred in the card
BarChartX(n) == CardMargin * Pt + (CardWidth - TotalBarChartWidth(n)) \div 2

\* the largest of the likes and comments of the posts (p.likes || 0)
LargestMetric(posts) ==
  LET values == {posts[i].likes : i \in 1..Len(posts)}
                  \cup {posts[i].comments : i \in 1..Len(posts)}
  IN  CHOOSE v \in values : \A w \in values : v >= w

\* faulty variant of MaxMetric: without the default of 1
MaxMetric_NoDefault(posts) == LargestMetric(posts)
\* const maxMetric = Math.max(...likes, ...comments) || 1
MaxMetric(posts) == IF LargestMetric(posts) # 0 THEN LargestMetric(posts) ELSE 1

\* likesHeight, commentsHeight: (value || 0) / maxMetric * chartHeight
BarHeight(value, maxMetric) ==
  JsMul(JsDiv(Num(value), Num(maxMetric)), Num(BarChartHeight * Pt))

\* doc.rect(x, chartY + chartHeight - height, barWidth, height).fill() of the
\* post at a (0-based) index
Bar(index, kind, value, x, y0, height) ==
  [op |-> "bar", sec |-> "bar", i |-> index, kind |-> kind, value |-> value,
   x |-> x, y |-> JsSub(Num(y0 + BarChartHeight * Pt), height), w |-> BarWidth * Pt,
   h |-> height]

\* the heading and the axes of the bar chart
BarChartStarted(d, n) ==
  LET d1 == MoveDown(Text(FontSize(Font(d, TRUE), 14), Op("heading", "bar"), 1), 4)
      bottom == d1.y + BarChartHeight * Pt
  IN  Vector(Vector(d1, Line("bar", BarChartX(n), d1.y, BarChartX(n), bottom)),
             Line("bar", BarChartX(n), bottom, BarChartX(n) + TotalBarChartWidth(n), bottom))

\* one iteration of topPosts.forEach of the bar chart: the two bars and the
\* index label of the post at position i (1-based here, idx + 1 in the code)
BarsDrawn(d, posts, i, y0) ==
  LET post == posts[i]
      baseX == BarChartX(Len(posts)) + (i - 1) * (2 * BarWidth + BarGap) * Pt
      d1 == Vector(d, Bar(i - 1, "likes", post.likes, baseX, y0,
                          BarHeight(post.likes, MaxMetric(posts))))
      d2 == Vector(d1, Bar(i - 1, "comments", post.comments, baseX + BarWidth * Pt, y0,
                           BarHeight(post.comments, MaxMetric(posts))))
  IN  TextAt(FontSize(Font(d2, FALSE), 8), y0 + (BarChartHeight + 2) * Pt,
             [op |-> "label", sec |-> "bar", label |-> i], 1)

\* the two-entry legend below the chart
LegendDrawn(d, y0) ==
  LET legendY == y0 + (BarChartHeight + 20) * Pt
      d1 == Vector(d, Op("legend", "bar"))
      d2 == TextAt(FontSize(Font(d1, FALSE), 8), legendY - 2 * Pt, Op("legend", "bar"), 1)
      d3 == Vector(d2, Op("legend", "bar"))
      d4 == TextAt(FontSize(Font(d3, FALSE), 8), legendY - 2 * Pt, Op("legend", "bar"), 1)
  IN  SetY(d4, legendY + 30 * Pt)

\* after the last row: doc.moveDown(1.0), then the bar chart if there are posts
DrawBarChart ==
  /\ pc = "rows"
  /\ idx > Len(followerHistory)
  /\ BarChartGuard(topPosts)
  /\ doc' = BarChartStarted(MoveDown(doc, 10), Len(topPosts))
  /\ chartY' = doc'.y
  /\ idx' = 1
  /\ pc' = "bars"
  /\ UNCHANGED <<followerHistory, topPosts, stats, recommendations, result, buffers, pdfBuffer, calls, serviceVars>>

DrawBars ==
  /\ pc = "bars"
  /\ idx <= Len(topPosts)
  /\ doc' = BarsDrawn(doc, topPosts, idx, chartY)
  /\ idx' = idx + 1
  /\ UNCHANGED <<followerHistory, topPosts, pc, stats, recommendations, chartY, result, buffers, pdfBuffer, calls, serviceVars>>

DrawLegend ==
  /\ pc = "bars"
  /\ idx > Len(topPosts)
  /\ doc' = LegendDrawn(doc, chartY)
  /\ pc' = "page3"
  /\ UNCHANGED <<followerHistory, topPosts, stats, recommendations, idx, chartY, result, buffers, pdfBuffer, calls, serviceVars>>

SkipBarChart ==
  /\ pc = "rows"
  /\ idx > Len(followerHistory)
  /\ ~BarChartGuard(topPosts)
  /\ doc' = MoveDown(doc, 10)
  /\ pc' = "page3"
  /\ UNCHANGED <<followerHistory, topPosts, stats, recommendations, idx, chartY, result, buffers, pdfBuffer, calls, serviceVars>>

\* the five key takeaway bullets
RECURSIVE KeyPointsDrawn(_, _)
KeyPointsDrawn(d, keyPoints) ==
  IF keyPoints = <<>> THEN d
  ELSE KeyPointsDrawn(Text(d, [op |-> "bullet", sec |-> "takeaways",
                               args |-> <<Head(keyPoints)>>], 1),
                      Tail(keyPoints))

TakeawaysDrawn(d, s) ==
  LET d1 == MoveDown(Text(FontSize(AddPage(d), 16), Op("heading", "takeaways"), 1), 5)
      d2 == KeyPointsDrawn(FontSize(d1, 11),
                           <<s.dailyGrowth, s.engagementRate, s.commentLikeRatio,
                             s.forecast30, s.forecast90>>)
  IN  MoveDown(d2, 10)

\* doc.addPage(), the heading and the key takeaways of page 3
AddPage3 ==
  /\ pc = "page3"
  /\ IF /\ CanCallMethod(stats.dailyGrowth)
        /\ CanCallMethod(stats.engagementRate)
        /\ CanCallMethod(stats.commentLikeRatio)
        /\ CanCallMethod(stats.forecast30)
        /\ CanCallMethod(stats.forecast90)
       THEN /\ doc' = TakeawaysDrawn(doc, stats)
            /\ pc' = "recs"
            /\ UNCHANGED <<followerHistory, topPosts, stats, recommendations, idx, chartY, result, buffers, pdfBuffer, calls, serviceVars>>
       ELSE /\ doc' = MoveDown(Text(FontSize(AddPage(doc), 16),
                                    Op("heading", "takeaways"), 1), 5)
            /\ pc' = "done"
            /\ result' = "threw"
            /\ UNCHANGED <<followerHistory, topPosts, stats, recommendations, idx, chartY,
                           buffers, pdfBuffer, calls, serviceVars>>

\* each recommendation is a bullet that wraps onto a second line
RECURSIVE BulletsDrawn(_, _)
BulletsDrawn(d, recs) ==
  IF recs = <<>> THEN d
  ELSE BulletsDrawn(Text(d, [op |-> "bullet", sec |-> "recommendations",
                             msg |-> Head(recs)], 2),
                    Tail(recs))

\* the recommendations heading, the rule-based list and its bullets
DrawRecommendations ==
  /\ pc = "recs"
  /\ recommendations' = Recommendations(stats)
  /\ doc' = BulletsDrawn(
              FontSize(MoveDown(Text(FontSize(doc, 14),
                                     Op("heading", "recommendations"), 1), 4), 11),
              recommendations')
  /\ pc' = "page4"
  /\ UNCHANGED <<followerHistory, topPosts, stats, idx, chartY, result, buffers, pdfBuffer, calls, serviceVars>>

\* doc.addPage(), the heading and the header row of the top posts table
AddPage4 ==
  /\ pc = "page4"
  /\ LET d1 == MoveDown(Text(FontSize(AddPage(doc), 16), Op("heading", "topposts"), 1), 5)
         d2 == Text(FontSize(d1, 10), [op |-> "header", sec |-> "topposts",
                                       label |-> "Title"], 1)
         d3 == Text(d2, [op |-> "header", sec |-> "topposts", label |-> "Likes"], 1)
         d4 == Text(d3, [op |-> "header", sec |-> "topposts", label |-> "Comments"], 1)
     IN  doc' = MoveDown(d4, 3)
  /\ idx' = 1
  /\ pc' = "posts"
  /\ UNCHANGED <<followerHistory, topPosts, stats, recommendations, chartY, result, buffers, pdfBuffer, calls, serviceVars>>

PostRowDrawn(d, post) ==
  LET d1 == Text(FontSize(d, 10), [op |-> "cell", sec |-> "topposts", col |-> "title",
                                   chars |-> Truncate(post.title.chars)], 1)
      d2 == Text(d1, [op |-> "cell", sec |-> "topposts", col |-> "likes",
                      value |-> post.likes], 1)
      d3 == Text(d2, [op |-> "cell", sec |-> "topposts", col |-> "comments",
                      value |-> post.comments], 1)
  IN  SetY(d3, d3.y + 14 * Pt)

\* one iteration of topPosts.forEach of page 4: title.length throws on a null title
DrawPostRow ==
  /\ pc = "posts"
  /\ idx <= Len(topPosts)
  /\ IF topPosts[idx].title.isNull
       THEN Throw
       ELSE /\ doc' = PostRowDrawn(doc, topPosts[idx])
            /\ idx' = idx + 1
            /\ UNCHANGED <<followerHistory, topPosts, pc, stats, recommendations, chartY, result, buffers, pdfBuffer, calls, serviceVars>>

\* doc.end() after the last row; the promise is then pending on the stream
EndDocument ==
  /\ pc = "posts"
  /\ idx > Len(topPosts)
  /\ doc' = EndOfDocument(doc)
  /\ pc' = "flush"
  /\ UNCHANGED <<followerHistory, topPosts, stats, recommendations, idx, chartY, result, buffers, pdfBuffer, calls, serviceVars>>

\* the chunks the document has written and its 'data' listener has not received
Pending == Len(doc.out) - Len(buffers)

\* a 'data' event: buffers.push(chunk).  The function runs to its return
\* without yielding, so the stream delivers its chunks, in the order they
\* were written, only once the function has returned its promise.
EmitData ==
  /\ pc = "flush"
  /\ Pending > 0
  /\ buffers' = Append(buffers, doc.out[Len(buffers) + 1])
  /\ UNCHANGED <<followerHistory, topPosts, pc, stats, doc, recommendations, idx, chartY, result, pdfBuffer, calls, serviceVars>>

\* resolve or reject of a promise: only the first call settles it
Settle_Overwrite(current, outcome) == outcome
Settle(current, outcome) == IF current = "pending" THEN outcome ELSE current

\* the stream's 'end' event, after the last chunk: resolve(Buffer.concat(buffers))
StreamEnd ==
  /\ pc = "flush"
  /\ Pending = 0
  /\ pc' = "done"
  /\ result' = Settle(result, "resolved")
  /\ pdfBuffer' = IF result' = "resolved" THEN buffers ELSE pdfBuffer
  /\ UNCHANGED <<followerHistory, topPosts, stats, doc, recommendations, idx, chartY, buffers, calls, serviceVars>>

Next ==
  \/ ComputeStats
  \/ CreateDocument
  \/ DrawHeader
  \/ DrawSummary
  \/ DrawGrowthChart
  \/ SkipGrowthChart
  \/ AddPage2
  \/ DrawHistoryRow
  \/ DrawBarChart
  \/ DrawBars
  \/ DrawLegend
  \/ SkipBarChart
  \/ AddPage3
  \/ DrawRecommendations
  \/ AddPage4
  \/ DrawPostRow
  \/ EndDocument
  \/ EmitData
  \/ StreamEnd

Spec == Init /\ [][Next]_vars

(***************************************************************************)
(* The same call on a stream that can fail.  The 'end' and 'error'         *)
(* listeners are registered by the promise executor, after doc.end(); the  *)
(* 'data' listener right after the document is created.                    *)
(***************************************************************************)
\* the steps between new PDFDocument and doc.end()
Drawing == {"header", "summary", "chart", "page2", "rows", "bars", "page3", "recs",
            "page4", "posts"}

\* an 'error' event emitted inside a drawing call: the emitter has no 'error'
\* listener yet, so emit throws and the exception leaves the function
StreamErrorUnhandled ==
  /\ pc \in Drawing
  /\ Throw

\* an 'error' event once the promise is pending: reject(err); the stream may
\* or may not go on to deliver its chunks and 'end'
StreamError ==
  /\ pc = "flush"
  /\ result' = Settle(result, "rejected")
  /\ UNCHANGED <<followerHistory, topPosts, pc, stats, doc, recommendations, idx, chartY, buffers, pdfBuffer, calls, serviceVars>>

NextFaults ==
  \/ Next
  \/ StreamErrorUnhandled
  \/ StreamError

SpecFaults == Init /\ [][NextFaults]_vars

(***************************************************************************)
(* Calls in flight together.  A call runs from its first statement to the  *)
(* return of its promise without yielding; the calls interleave only in    *)
(* the stream events ('data', 'end') of their documents.  doc and buffers  *)
(* are locals of the call: each call has its own.                          *)
(***************************************************************************)
Callers == 1..NCalls

\* the document of a call that draws `pages` pages, as written out
RECURSIVE PagesAdded(_, _)
PagesAdded(d, k) == IF k = 0 THEN d ELSE PagesAdded(AddPage(d), k - 1)

\* the chunks of the document of call c (the bytes of two documents are told
\* apart by the document that wrote them)
ChunksOf(c, pages) ==
  LET out == EndOfDocument(PagesAdded(NewDocument, pages - 1)).out
  IN  [i \in 1..Len(out) |-> [doc |-> c, chunk |-> out[i]]]

\* the buffers array the 'data' listener of call c pushes to, and the one its
\* 'end' listener concatenates: the const of the same call
Accumulator_Shared(c) == 1
Accumulator(c) == c

InitCalls ==
  /\ calls \in [Callers -> {[state |-> "idle", pages |-> n, out |-> <<>>, sent |-> 0,
                                buffers |-> <<>>, pdfBuffer |-> <<>>] : n \in 4..MaxCallPages}]
  /\ followerHistory = <<>>
  /\ topPosts = <<>>
  /\ pc = "idle"
  /\ stats = NoStats
  /\ doc = [pages |-> <<>>, y |-> 0, bold |-> FALSE, size |-> 12, out |-> <<>>]
  /\ recommendations = <<>>
  /\ idx = 0
  /\ chartY = 0
  /\ result = "pending"
  /\ buffers = <<>>
  /\ pdfBuffer = <<>>
  /\ request = NoRequest
  /\ handler = [pc |-> "idle", bodyRead |-> FALSE, generated |-> "no"]
  /\ metrics = NoMetrics
  /\ responses = <<>>

\* generateReport(...) up to the return of its promise: the document is
\* created, drawn and ended; its chunks wait in the stream
Invoke(c) ==
  /\ calls[c].state = "idle"
  /\ calls' = [calls EXCEPT ![c].state = "pending",
                            ![c].out = ChunksOf(c, calls[c].pages)]
  /\ UNCHANGED <<reportVars, serviceVars>>

\* a 'data' event of the document of call c
CallData(c) ==
  /\ calls[c].state = "pending"
  /\ calls[c].sent < Len(calls[c].out)
  /\ calls' = [calls EXCEPT ![c].sent = @ + 1,
                            ![Accumulator(c)].buffers =
                               Append(@, calls[c].out[calls[c].sent + 1])]
  /\ UNCHANGED <<reportVars, serviceVars>>

\* the 'end' event of the document of call c
CallEnd(c) ==
  /\ calls[c].state = "pending"
  /\ calls[c].sent = Len(calls[c].out)
  /\ calls' = [calls EXCEPT ![c].state = "resolved",
                            ![c].pdfBuffer = calls[Accumulator(c)].buffers]
  /\ UNCHANGED <<reportVars, serviceVars>>

NextCalls == \E c \in Callers : Invoke(c) \/ CallData(c) \/ CallEnd(c)

SpecCalls == InitCalls /\ [][NextCalls]_vars

(***************************************************************************)
(* The HTTP service: the handler, fetchMetrics and the two integrations.   *)
(*                                                                         *)
(* Time values are counted in half days.  A Date is its time value: a      *)
(* number, or NaN for an Invalid Date.                                     *)
(***************************************************************************)
\* 1000 * 60 * 60 * 24 ms
Day == 2
\* the time value of new Date() at the request
Now == 40000
\* the largest time value of a Date (8.64e15 ms): date.toISOString() throws
\* on a Date past it
EndOfTime == 200000000
\* the default length of the reporting period, days
DefaultDays == 30

\* the truthiness of a since or until value of the JSON body: absent ("undef"),
\* the empty string, text that is no date, or an ISO date string of time t
Given(s) == s.kind \notin {"undef", "empty"}

\* a time value outside the range of Date is an Invalid Date
TimeClip(v) == IF IsNum(v) /\ Abs(v.n) <= EndOfTime * v.d THEN v ELSE NaN

\* new Date(string)
NewDate(s) == IF s.kind = "iso" THEN TimeClip(Num(s.t)) ELSE NaN

\* const endDate = until ? new Date(until) : new Date()
EndDate(until) == IF Given(until) THEN NewDate(until) ELSE Num(Now)

\* const startDate = since ? new Date(since) : new Date(endDate.getTime() - 30 days)
StartDate(since, endDate) ==
  IF Given(since) THEN NewDate(since)
  ELSE TimeClip(JsSub(endDate, Num(DefaultDays * Day)))

\* Math.ceil
MathCeil(v) == IF IsNum(v) THEN Num(-((-v.n) \div v.d)) ELSE v

\* Math.max of two values: NaN when either is NaN
MathMax(a, b) ==
  IF a.k \in {"nan", "undef"} \/ b.k \in {"nan", "undef"} THEN NaN
  ELSE IF JsLt(a, b) THEN b ELSE a

\* Math.ceil((endDate - startDate) / (1000 * 60 * 60 * 24))
DaysBetween(startDate, endDate) == MathCeil(JsDiv(JsSub(endDate, startDate), Num(Day)))

\* the number of iterations of for (let i = 0; i <= totalDays; i++)
Iterations(totalDays) ==
  IF IsNum(totalDays) /\ totalDays.n >= 0 THEN totalDays.n \div totalDays.d + 1 ELSE 0

\* does date.toISOString() throw in one of n iterations: the date of iteration
\* i is new Date(startDate.getTime() + i days)
ToISOStringThrows(startDate, n) ==
  \E i \in 0..(n - 1) : ~IsNum(TimeClip(JsAdd(startDate, Num(i * Day))))

\* the outcome of a call: an exception, or a returned value
Thrown == [threw |-> TRUE]
Returned(v) == [threw |-> FALSE, value |-> v]

\* Math.floor(Math.random() * range + lo): the draws of one loop are all the
\* lowest, all the highest, or alternate between the two
Draw(pattern, lo, hi, i) ==
  IF pattern = "low" THEN lo
  ELSE IF pattern = "high" THEN hi
  ELSE IF i % 2 = 0 THEN lo ELSE hi

\* the sum of the draws of iterations from..to
RECURSIVE SumDraws(_, _, _, _, _)
SumDraws(pattern, lo, hi, from, to) ==
  IF to < from THEN 0
  ELSE SumDraws(pattern, lo, hi, from, to - 1) + Draw(pattern, lo, hi, to)

\* array.slice(0, n)
Slice(s, n) == SubSeq(s, 1, IF Len(s) < n THEN Len(s) ELSE n)

\* a MetricsBundle, with the path that produced it and the name of the array
\* returned as followerHistory
Bundle(history, posts, via, series) ==
  [followerHistory |-> history, topPosts |-> posts, via |-> via, series |-> series]

\* the draws of one call: the growth of a synthetic history, the likes and the
\* comments of sample posts
Randoms == [growth : {"low", "high", "mixed"}, likes : {"low", "mixed"}, comments : {"low", "high"}]

\* sampleTitles.map(title => ({title, likes: random, comments: random})); a
\* title is given by its length
SamplePosts(titles, likes, comments, rnd) ==
  [i \in 1..Len(titles) |->
     Post(Title(titles[i]), Draw(rnd.likes, likes[1], likes[2], i),
          Draw(rnd.comments, comments[1], comments[2], i))]

\* metricsService.js: generateFollowerHistory(startDate, endDate)
GenerateFollowerHistory(startDate, endDate, rnd) ==
  LET totalDays == DaysBetween(startDate, endDate)
      n == Iterations(totalDays)
  IN  IF ToISOStringThrows(startDate, n) THEN Thrown
      ELSE Returned([j \in 1..n |-> 1000 + SumDraws(rnd.growth, 5, 14, 1, j - 1)])

\* metricsService.js: generateTopPosts()
GenerateTopPosts(rnd) ==
  SamplePosts(<<39, 34, 28, 29, 33>>, <<100, 599>>, <<10, 59>>, rnd)

\* fetchMetrics, from 'Fall back to synthetic data' on
SyntheticMetrics(since, until, rnd) ==
  LET endDate == EndDate(until)
      startDate == StartDate(since, endDate)
      followerHistory_ == GenerateFollowerHistory(startDate, endDate, rnd)
  IN  IF followerHistory_.threw THEN Thrown
      ELSE Returned(Bundle(followerHistory_.value, GenerateTopPosts(rnd),
                           "synthetic", "followerHistory"))

\* buildFollowerHistory of the integrations: steady growth of perDay followers
\* a day up to followerCount
BuildFollowerHistory(perDay, followerCount, startDate, endDate) ==
  LET totalDays == MathMax(Num(1), DaysBetween(startDate, endDate))
      startCount == MathMax(Zero, JsSub(Num(followerCount), JsMul(totalDays, Num(perDay))))
      increment == JsDiv(JsSub(Num(followerCount), startCount), totalDays)
      n == Iterations(totalDays)
  IN  IF ToISOStringThrows(startDate, n) THEN Thrown
      ELSE Returned([j \in 1..n |->
                       MathRound(JsAdd(startCount, JsMul(increment, Num(j - 1)))).n])

\* the synthetic history of the integrations: from `current`, a draw added in
\* every iteration
RandomHistory(current, lo, hi, startDate, endDate, rnd) ==
  LET totalDays == MathMax(Num(1), DaysBetween(startDate, endDate))
      n == Iterations(totalDays)
  IN  IF ToISOStringThrows(startDate, n) THEN Thrown
      ELSE Returned([j \in 1..n |-> current + SumDraws(rnd.growth, lo, hi, 0, j - 1)])

\* a username: null, or a path segment (a leading '@' or not, and the rest)
NoUsername == [isNull |-> TRUE, at |-> FALSE, name |-> ""]

\* !username is false
HasUsername(username) == ~username.isNull /\ (username.at \/ username.name # "")

\* u.pathname.split('/').filter(Boolean)
Parts(url) == SelectSeq(url.path, LAMBDA segment : segment.at \/ segment.name # "")

\* tiktok.js: parseTikTokUsername(url)
ParseTikTokUsername(url) ==
  IF ~url.parses THEN NoUsername
  ELSE IF Len(Parts(url)) = 0 THEN NoUsername
  ELSE [isNull |-> FALSE, at |-> FALSE, name |-> Parts(url)[1].name]

\* instagram.js: parseInstagramUsername(url)
ParseInstagramUsername(url) ==
  IF ~url.parses THEN NoUsername
  ELSE IF Len(Parts(url)) > 0
         THEN [isNull |-> FALSE, at |-> Parts(url)[1].at, name |-> Parts(url)[1].name]
         ELSE NoUsername

\* what the TikTok page request can come to: fetch rejects, a status that is
\* not ok, or a page whose text matches /followerCount":(\d+)/ or does not
TikTokPages ==
  {[kind |-> "network", match |-> FALSE, count |-> 0],
   [kind |-> "status", match |-> FALSE, count |-> 0],
   [kind |-> "html", match |-> FALSE, count |-> 0]}
  \cup {[kind |-> "html", match |-> TRUE, count |-> c] : c \in FollowerCounts}

\* tiktok.js: getTikTokMetrics(profileUrl, since, until)
GetTikTokMetrics(profileUrl, since, until, page, rnd) ==
  LET username == ParseTikTokUsername(profileUrl)
      endDate == EndDate(until)
      startDate == StartDate(since, endDate)
      samples == SamplePosts(<<26, 17, 17, 25, 25>>, <<500, 5499>>, <<20, 219>>, rnd)
      history == IF page.match
                   THEN BuildFollowerHistory(50, page.count, startDate, endDate)
                   ELSE Returned(<<>>)
      fallbackHistory == IF Len(history.value) = 0
                           THEN RandomHistory(500, 20, 69, startDate, endDate, rnd)
                           ELSE Returned(<<>>)
      tried ==
        IF ~HasUsername(username) \/ page.kind # "html" THEN Thrown
        ELSE IF history.threw THEN Thrown
        ELSE IF fallbackHistory.threw THEN Thrown
        ELSE IF Len(history.value) > 0
          THEN Returned(Bundle(history.value, Slice(samples, 3), "tiktok", "history"))
        ELSE Returned(Bundle(fallbackHistory.value, Slice(samples, 3),
                             "tiktok", "fallbackHistory"))
      caught == RandomHistory(500, 20, 69, startDate, endDate, rnd)
  IN  IF ~tried.threw THEN tried
      ELSE IF caught.threw THEN Thrown
      ELSE Returned(Bundle(caught.value, Slice(samples, 3), "tiktok catch", "history"))

\* mediaEdges.map(edge => ({title, likes, comments}))
PostsOfEdges(edges) ==
  [i \in 1..Len(edges) |-> Post(Title(edges[i].caption), edges[i].likes, edges[i].comments)]

\* posts.sort((a, b) => b.likes - a.likes): most liked first, equal likes in
\* their order
RECURSIVE SortByLikes(_)
SortByLikes(posts) ==
  IF posts = <<>> THEN <<>>
  ELSE LET last == posts[Len(posts)]
           sorted == SortByLikes(SubSeq(posts, 1, Len(posts) - 1))
           ahead == SelectSeq(sorted, LAMBDA p : p.likes >= last.likes)
           behind == SelectSeq(sorted, LAMBDA p : p.likes < last.likes)
       IN  ahead \o <<last>> \o behind

\* what the Instagram request can come to: fetch rejects, a status that is not
\* ok, a reply without data.user, or a user with a follower count (a number,
\* or none) and media edges (a list, or something map or edge.node fails on)
InstagramReplies ==
  LET \* a media edge: the length of its caption, its likes and its comments
      Edge(caption, likes, comments) ==
        [caption |-> caption, likes |-> likes, comments |-> comments]
  IN  {[kind |-> k, hasCount |-> FALSE, count |-> 0, listed |-> FALSE, edges |-> <<>>] :
         k \in {"network", "status", "nouser"}}
      \cup {[kind |-> "user", hasCount |-> TRUE, count |-> c, listed |-> TRUE,
              edges |-> <<Edge(8, 1, 0)>>] : c \in FollowerCounts}
      \cup {[kind |-> "user", hasCount |-> TRUE, count |-> 120, listed |-> TRUE, edges |-> e] :
              e \in SeqsUpTo({Edge(8, 1, 0), Edge(9, 2, 5)}, MaxEdges)}
      \cup {[kind |-> "user", hasCount |-> FALSE, count |-> 0, listed |-> TRUE,
              edges |-> <<Edge(8, 1, 0)>>],
             [kind |-> "user", hasCount |-> TRUE, count |-> 120, listed |-> FALSE,
              edges |-> <<>>]}

\* instagram.js: getInstagramMetrics(profileUrl, since, until)
GetInstagramMetrics(profileUrl, since, until, reply, rnd) ==
  LET username == ParseInstagramUsername(profileUrl)
      endDate == EndDate(until)
      startDate == StartDate(since, endDate)
      posts == Slice(SortByLikes(PostsOfEdges(reply.edges)), 3)
      history == IF reply.hasCount
                   THEN BuildFollowerHistory(10, reply.count, startDate, endDate)
                   ELSE Returned(<<>>)
      tried ==
        IF ~HasUsername(username) \/ reply.kind # "user" THEN Thrown
        ELSE IF ~reply.listed THEN Thrown
        ELSE IF history.threw THEN Thrown
        ELSE Returned(Bundle(history.value, posts, "instagram", "history"))
      caught == RandomHistory(1000, 5, 14, startDate, endDate, rnd)
      samples == SamplePosts(<<39, 34, 28, 29, 33>>, <<100, 599>>, <<10, 59>>, rnd)
  IN  IF ~tried.threw THEN tried
      ELSE IF caught.threw THEN Thrown
      ELSE Returned(Bundle(caught.value, Slice(samples, 3), "instagram catch", "history"))

\* String.prototype.toLowerCase
ToLowerCase(chars) ==
  LET UpperCase == <<"A", "B", "C", "D", "E", "F", "G", "H", "I", "J", "K", "L", "M",
                     "N", "O", "P", "Q", "R", "S", "T", "U", "V", "W", "X", "Y", "Z">>
      LowerCase == <<"a", "b", "c", "d", "e", "f", "g", "h", "i", "j", "k", "l", "m",
                     "n", "o", "p", "q", "r", "s", "t", "u", "v", "w", "x", "y", "z">>
  IN  [i \in 1..Len(chars) |->
         IF \E j \in 1..26 : UpperCase[j] = chars[i]
           THEN LowerCase[CHOOSE j \in 1..26 : UpperCase[j] = chars[i]]
           ELSE chars[i]]

\* fetchMetrics, the choice of the integration: platform.toLowerCase() of a
\* value that is not a string throws inside the try block, which is caught
Integration(platform, profileUrl) ==
  IF ~(/\ platform.kind = "number" \/ (platform.kind = "string" /\ platform.chars # <<>>)
       /\ profileUrl.given)
    THEN "synthetic"
  ELSE IF platform.kind # "string" THEN "synthetic"
  ELSE IF ToLowerCase(platform.chars) = <<"i", "n", "s", "t", "a", "g", "r", "a", "m">>
    THEN "instagram"
  ELSE IF ToLowerCase(platform.chars) = <<"t", "i", "k", "t", "o", "k">> THEN "tiktok"
  ELSE "synthetic"

\* the requests: a method, what reading and parsing the body comes to (the
\* stream fails, text that is not JSON, the JSON null, an empty body, a JSON
\* number, an object), and the fields of the object.  A platform is absent, a
\* number or a string; a profile URL is truthy or not, is accepted by new URL
\* or not, and has the segments of its pathname split at '/' (a segment: a
\* leading '@' or not, and the rest of it); since and until are absent, the
\* empty string, text that is no date, or an ISO date string of time t.
Requests ==
  LET none == [kind |-> "undef", chars |-> <<>>]
      Str(chars) == [kind |-> "string", chars |-> chars]
      platforms ==
        {none, [kind |-> "number", chars |-> <<>>], Str(<<>>),
         Str(<<"i", "n", "s", "t", "a", "g", "r", "a", "m">>),
         Str(<<"I", "n", "s", "t", "a", "g", "r", "a", "m">>),
         Str(<<"t", "i", "k", "t", "o", "k">>),
         Str(<<"T", "I", "K", "T", "O", "K">>),
         Str(<<"f", "a", "c", "e", "b", "o", "o", "k">>)}
      Url(given, parses, path) == [given |-> given, parses |-> parses, path |-> path]
      Segment(at, name) == [at |-> at, name |-> name]
      urls ==
        {Url(FALSE, FALSE, <<>>),
         Url(TRUE, FALSE, <<>>),
         Url(TRUE, TRUE, <<>>),
         Url(TRUE, TRUE, <<Segment(TRUE, "")>>),
         Url(TRUE, TRUE, <<Segment(TRUE, "acme")>>),
         Url(TRUE, TRUE, <<Segment(FALSE, ""), Segment(FALSE, "acme"),
                           Segment(FALSE, "video")>>)}
      absent == [kind |-> "undef"]
      empty == [kind |-> "empty"]
      text == [kind |-> "text"]
      Iso(t) == [kind |-> "iso", t |-> t]
      periods ==
        {<<absent, absent>>, <<empty, empty>>, <<text, absent>>, <<absent, text>>,
         <<Iso(Now - 3), Iso(Now)>>, <<Iso(Now), Iso(Now)>>, <<Iso(Now), Iso(Now - Day)>>,
         <<Iso(EndOfTime - 1), Iso(EndOfTime)>>, <<Iso(EndOfTime), absent>>}
  IN  {[method |-> m, body |-> b, platform |-> none, profileUrl |-> Url(FALSE, FALSE, <<>>),
        since |-> absent, until |-> absent] :
         m \in {"GET", "PUT", "POST"},
         b \in {"aborted", "malformed", "null", "empty", "number"}}
      \cup {[method |-> m, body |-> "object", platform |-> p, profileUrl |-> u,
              since |-> d[1], until |-> d[2]] :
               m \in {"GET", "POST"}, p \in platforms, u \in urls, d \in periods}

InitService ==
  /\ request \in Requests
  /\ handler = [pc |-> "start", bodyRead |-> FALSE, generated |-> "no"]
  /\ metrics = NoMetrics
  /\ responses = <<>>
  /\ calls = NoCalls
  /\ followerHistory = <<>>
  /\ topPosts = <<>>
  /\ pc = "idle"
  /\ stats = NoStats
  /\ doc = [pages |-> <<>>, y |-> 0, bold |-> FALSE, size |-> 12, out |-> <<>>]
  /\ recommendations = <<>>
  /\ idx = 0
  /\ chartY = 0
  /\ result = "pending"
  /\ buffers = <<>>
  /\ pdfBuffer = <<>>

\* res.status(status).json({ error })
Json(status, error) == [status |-> status, type |-> "application/json", body |-> error]

\* res.setHeader('Content-Type', 'application/pdf'); res.status(200).send(pdfBuffer)
Pdf(buffer) == [status |-> 200, type |-> "application/pdf", body |-> buffer]

\* faulty variant of MethodAllowed: only GET is turned away
MethodAllowed_NotGet(method) == method # "GET"
\* req.method !== 'POST' is false
MethodAllowed(method) == method = "POST"

\* a response is sent and the handler returns
Respond(response) ==
  /\ responses' = Append(responses, response)
  /\ handler' = [handler EXCEPT !.pc = "done"]

\* the catch block of the handler
Fail == Respond(Json(500, "Failed to generate report"))

\* if (req.method !== 'POST') { res.status(405).json(...); return; }
MethodNotAllowed ==
  /\ handler.pc = "start"
  /\ ~MethodAllowed(request.method)
  /\ Respond(Json(405, "Method Not Allowed"))
  /\ UNCHANGED <<request, metrics, reportVars, calls>>

\* for await (const chunk of req): the body is read to its end, or the stream
\* fails and the catch block answers
ReadBody ==
  /\ handler.pc = "start"
  /\ MethodAllowed(request.method)
  /\ IF request.body = "aborted"
       THEN Fail
       ELSE /\ handler' = [handler EXCEPT !.pc = "parse", !.bodyRead = TRUE]
            /\ UNCHANGED responses
  /\ UNCHANGED <<request, metrics, reportVars, calls>>

\* JSON.parse(rawBody) in its own try block, then the destructuring of data,
\* which throws on null
ParseBody ==
  /\ handler.pc = "parse"
  /\ IF request.body = "malformed" THEN Respond(Json(400, "Invalid JSON payload"))
     ELSE IF request.body = "null" THEN Fail
     ELSE /\ handler' = [handler EXCEPT !.pc = "fetch"]
          /\ UNCHANGED responses
  /\ UNCHANGED <<request, metrics, reportVars, calls>>

\* fetchMetrics up to the call of an integration, or to the synthetic data
FetchMetrics ==
  /\ handler.pc = "fetch"
  /\ handler' = [handler EXCEPT !.pc = Integration(request.platform, request.profileUrl)]
  /\ UNCHANGED <<request, metrics, responses, reportVars, calls>>

\* the bundle fetchMetrics returns to the handler; `reply` is what the
\* integration was answered, if one was asked
Fetched(bundle, reply) ==
  [fetched |-> TRUE, rejected |-> FALSE, bundle |-> bundle, reply |-> reply]

\* return await getInstagramMetrics(...): its bundle is the result of
\* fetchMetrics; an exception is caught and the synthetic data follows
Instagram ==
  /\ handler.pc = "instagram"
  /\ \E reply \in InstagramReplies, rnd \in Randoms :
       LET r == GetInstagramMetrics(request.profileUrl, request.since, request.until,
                                    reply, rnd)
       IN  IF r.threw
             THEN /\ handler' = [handler EXCEPT !.pc = "synthetic"]
                  /\ UNCHANGED metrics
             ELSE /\ handler' = [handler EXCEPT !.pc = "generate"]
                  /\ metrics' = Fetched(r.value, reply)
  /\ UNCHANGED <<request, responses, reportVars, calls>>

\* return await getTikTokMetrics(...)
TikTok ==
  /\ handler.pc = "tiktok"
  /\ \E page \in TikTokPages, rnd \in Randoms :
       LET r == GetTikTokMetrics(request.profileUrl, request.since, request.until,
                                 page, rnd)
       IN  IF r.threw
             THEN /\ handler' = [handler EXCEPT !.pc = "synthetic"]
                  /\ UNCHANGED metrics
             ELSE /\ handler' = [handler EXCEPT !.pc = "generate"]
                  /\ metrics' = Fetched(r.value, page)
  /\ UNCHANGED <<request, responses, reportVars, calls>>

\* the synthetic data of fetchMetrics; an exception here rejects fetchMetrics
\* and the catch block of the handler answers
Synthetic ==
  /\ handler.pc = "synthetic"
  /\ \E rnd \in Randoms :
       LET r == SyntheticMetrics(request.since, request.until, rnd)
       IN  IF r.threw
             THEN /\ metrics' = [NoMetrics EXCEPT !.rejected = TRUE]
                  /\ Fail
             ELSE /\ metrics' = Fetched(r.value, [kind |-> "none"])
                  /\ handler' = [handler EXCEPT !.pc = "generate"]
                  /\ UNCHANGED responses
  /\ UNCHANGED <<request, reportVars, calls>>

\* await generateReport(metrics, ...): its promise resolves with the PDF, which
\* is sent, or rejects, and the catch block answers
Generate ==
  /\ handler.pc = "generate"
  /\ \E outcome \in {"resolved", "rejected"} :
       /\ responses' = Append(responses, IF outcome = "resolved"
                                            THEN Pdf("pdfBuffer")
                                            ELSE Json(500, "Failed to generate report"))
       /\ handler' = [handler EXCEPT !.pc = "done", !.generated = outcome]
  /\ UNCHANGED <<request, metrics, reportVars, calls>>

NextService ==
  \/ MethodNotAllowed
  \/ ReadBody
  \/ ParseBody
  \/ FetchMetrics
  \/ Instagram
  \/ TikTok
  \/ Synthetic
  \/ Generate

SpecService == InitService /\ [][NextService]_vars

(***************************************************************************)
(* Properties.                                                             *)
(***************************************************************************)
Pages == doc.pages

\* the operations of all pages, in drawing order
RECURSIVE Flatten(_)
Flatten(pages) == IF pages = <<>> THEN <<>> ELSE Head(pages) \o Flatten(Tail(pages))

HasOp(page, kind, sec) == \E i \in 1..Len(page) : page[i].op = kind /\ page[i].sec = sec

HasSection(page, sec) == \E i \in 1..Len(page) : page[i].sec = sec

Frames(page) == Cardinality({i \in 1..Len(page) : page[i].op = "frame"})

\* every post has a string title (the input is a MetricsBundle)
WellFormed == \A i \in 1..Len(topPosts) : ~topPosts[i].title.isNull

Finished == pc = "done"

StatsComputed == pc # "start"

\* C1: with an empty followerHistory (and any well-formed topPosts) the call
\* resolves, the document has exactly 4 pages and no part of the 'Follower
\* Growth' chart is drawn.
C1_EmptyHistoryFourPages ==
  (Finished /\ followerHistory = <<>> /\ WellFormed) =>
    /\ result = "resolved"
    /\ Len(Pages) = 4
    /\ \A i \in 1..Len(Pages) : ~HasSection(Pages[i], "growth")

C3_FourPagesInOrder ==
  (Finished /\ result = "resolved") =>
    /\ Len(Pages) = 4
    /\ HasOp(Pages[1], "heading", "summary")
    /\ HasOp(Pages[2], "heading", "history")
    /\ HasOp(Pages[3], "heading", "takeaways")
    /\ HasOp(Pages[4], "heading", "topposts")
    /\ \A i \in 1..Len(Pages) :
         /\ Len(Pages[i]) > 0
         /\ Pages[i][1].op = "frame"
         /\ Frames(Pages[i]) = 1

\* C4: with an empty followerHistory the derived growth metrics growthPercent,
\* totalNewFollowers, dailyGrowth, growthSlope, forecast30 and forecast90 are
\* all exactly 0.
C4_EmptyHistoryZeroMetrics ==
  (StatsComputed /\ followerHistory = <<>>) =>
    /\ stats.growth = Zero
    /\ stats.totalNewFollowers = Zero
    /\ stats.dailyGrowth = Zero
    /\ stats.growthSlope = Zero
    /\ stats.forecast30 = Zero
    /\ stats.forecast90 = Zero

\* C5 as claimed: for the two samples 100 then 200, growthSlope = 100,
\* forecast30 = 3100 and forecast90 = 9100.
C5_ForecastExample ==
  (StatsComputed /\ followerHistory = <<100, 200>>) =>
    /\ stats.growthSlope = Num(100)
    /\ stats.forecast30 = Num(3100)
    /\ stats.forecast90 = Num(9100)

\* C5 as amended: for the two samples 100 then 200, growthSlope = 100, and the
\* forecasts are projected from the end count: forecast30 = 200 + 100 * 30 = 3200
\* and forecast90 = 200 + 100 * 90 = 9200.
C5_ForecastFromEndCount ==
  (StatsComputed /\ followerHistory = <<100, 200>>) =>
    /\ stats.growthSlope = Num(100)
    /\ stats.forecast30 = Num(3200)
    /\ stats.forecast90 = Num(9200)

\* C5 witness: the statistics of the history 100, 200 have been computed
C5_Witness ==
  /\ StatsComputed
  /\ followerHistory = <<100, 200>>
  /\ stats.endCount = Num(200)

\* C6 as claimed: for a non-empty followerHistory, growthPercent is 0 if and
\* only if startCount is 0.
C6_GrowthZeroIffStartZero ==
  (StatsComputed /\ Len(followerHistory) > 0) =>
    (stats.growth = Zero <=> followerHistory[1] = 0)

\* C6 as amended: for a non-empty followerHistory, growthPercent is 0 if and
\* only if startCount is 0 or endCount equals startCount; so startCount = 0
\* gives 0 whatever endCount is.
C6_GrowthZeroIffStartZeroOrFlat ==
  (StatsComputed /\ Len(followerHistory) > 0) =>
    (stats.growth = Zero <=>
       \/ followerHistory[1] = 0
       \/ followerHistory[Len(followerHistory)] = followerHistory[1])

\* C6 witness: a history that starts at 0 and ends above 0, with growthPercent 0
C6_Witness ==
  /\ StatsComputed
  /\ Len(followerHistory) > 1
  /\ followerHistory[1] = 0
  /\ followerHistory[Len(followerHistory)] > 0
  /\ stats.growth = Zero

NoEngagement == SumLikes(topPosts) + SumComments(topPosts) = 0

\* C7 as claimed, on the bundles with a non-empty followerHistory:
\* engagementRate is 0 if and only if endCount is 0 or topPosts is empty.
C7_EngagementZeroIffNoAudienceOrPosts ==
  (StatsComputed /\ Len(followerHistory) > 0) =>
    (stats.engagementRate = Zero <=>
       \/ followerHistory[Len(followerHistory)] = 0
       \/ topPosts = <<>>)

\* C7 as amended: engagementRate is 0 if and only if followerHistory is empty,
\* or endCount is 0, or topPosts is empty, or the likes and comments of all
\* posts sum to 0.
C7_EngagementZeroIffNothingToCount ==
  StatsComputed =>
    (stats.engagementRate = Zero <=>
       \/ followerHistory = <<>>
       \/ followerHistory[Len(followerHistory)] = 0
       \/ topPosts = <<>>
       \/ NoEngagement)

\* C7 witness: posts without any like or comment, for an account with followers
C7_Witness ==
  /\ StatsComputed
  /\ Len(followerHistory) > 0
  /\ followerHistory[Len(followerHistory)] > 0
  /\ Len(topPosts) > 0
  /\ NoEngagement
  /\ stats.engagementRate = Zero

RecommendationsBuilt == pc \in {"page4", "posts", "flush", "done"} /\ recommendations # <<>>

Occurrences(recs, msg) == Cardinality({i \in 1..Len(recs) : recs[i] = msg})

\* growthSlope is a number and is at most 0
SlopeNotPositive == stats.growthSlope.k = "num" /\ stats.growthSlope.n <= 0

\* dailyGrowth is a number below 5
DailyBelowFive == stats.dailyGrowth.k = "num" /\ stats.dailyGrowth.n < 5 * stats.dailyGrowth.d

\* C8: the recommendations hold exactly one growth-cadence message: 'flat or
\* declining' when growthSlope <= 0, otherwise 'positive but modest' when
\* dailyGrowth < 5, otherwise 'strong'.
C8_OneGrowthMessage ==
  RecommendationsBuilt =>
    /\ Occurrences(recommendations, "flat")
         + Occurrences(recommendations, "modest")
         + Occurrences(recommendations, "strong") = 1
    /\ SlopeNotPositive => Occurrences(recommendations, "flat") = 1
    /\ (~SlopeNotPositive /\ DailyBelowFive) => Occurrences(recommendations, "modest") = 1
    /\ (~SlopeNotPositive /\ ~DailyBelowFive) => Occurrences(recommendations, "strong") = 1

\* C8 witness: a history growing by less than 5 a day got the 'modest' message
C8_Witness ==
  /\ RecommendationsBuilt
  /\ Len(followerHistory) > 1
  /\ ~SlopeNotPositive
  /\ DailyBelowFive
  /\ recommendations[1] = "modest"

\* engagementRate compared with an integer
RateBelow(i) == stats.engagementRate.k = "num" /\ stats.engagementRate.n < i * stats.engagementRate.d

RateAbove(i) == stats.engagementRate.k = "num" /\ stats.engagementRate.n > i * stats.engagementRate.d

\* C9: the 'Low engagement rate' message is present exactly when
\* engagementRate < 1, the 'High engagement rate' message exactly when
\* engagementRate > 5, neither when 1 <= engagementRate <= 5, never both.
C9_EngagementMessage ==
  RecommendationsBuilt =>
    /\ Occurrences(recommendations, "low") = (IF RateBelow(1) THEN 1 ELSE 0)
    /\ Occurrences(recommendations, "high") = (IF RateAbove(5) THEN 1 ELSE 0)
    /\ Occurrences(recommendations, "low") + Occurrences(recommendations, "high") <= 1

\* C9 witness: an engagement rate of exactly 5 got neither message
C9_Witness ==
  /\ RecommendationsBuilt
  /\ stats.engagementRate = Num(5)
  /\ Occurrences(recommendations, "low") + Occurrences(recommendations, "high") = 0

\* the title cells of the top posts table, in drawing order
TitleCells == SelectSeq(Flatten(Pages), LAMBDA o : o.op = "cell" /\ o.col = "title")

\* the first 47 characters of a title followed by the ellipsis character
Shortened(chars) == [j \in 1..48 |-> IF j <= 47 THEN chars[j] ELSE Ellipsis]

\* C10: in the top posts table a title longer than 50 characters is rendered
\* as its first 47 characters and one ellipsis character, a title of at most 50
\* characters unchanged, and no rendered title is longer than 50 characters.
C10_TitleTruncation ==
  (pc \in {"posts", "flush"} \/ (Finished /\ result = "resolved")) =>
    /\ Len(TitleCells) = idx - 1
    /\ \A i \in 1..Len(TitleCells) :
         LET chars == topPosts[i].title.chars
             shown == TitleCells[i].chars
         IN  /\ Len(chars) > 50 => shown = Shortened(chars)
             /\ Len(chars) <= 50 => shown = chars
             /\ Len(shown) <= 50

\* C10 witness: a title of 60 characters has been rendered with 48 characters
C10_Witness ==
  /\ pc = "flush"
  /\ \E i \in 1..Len(TitleCells) :
       /\ Len(topPosts[i].title.chars) = 60
       /\ Len(TitleCells[i].chars) = 48
       /\ TitleCells[i].chars[48] = Ellipsis

\* is sequence a a prefix of sequence b
IsPrefix(a, b) == Len(a) <= Len(b) /\ \A i \in 1..Len(a) : a[i] = b[i]

Failed == result \in {"threw", "rejected"}

\* C11: the promise settles once and never hands over a partial document: it
\* is resolved only at the stream's 'end', with every chunk the document has
\* written since its creation, in the order written; a throwing drawing step
\* or a stream 'error' between creation and 'end' fails the call; a failed or
\* pending call has returned no bytes; once settled the outcome and the
\* returned bytes never change.
C11_SettlesOnceWithWholeDocument ==
  /\ [](/\ IsPrefix(buffers, doc.out)
        /\ result = "resolved" =>
             /\ pc = "done"
             /\ pdfBuffer = doc.out
             /\ pdfBuffer[Len(pdfBuffer)] = Chunk("trailer", 0)
        /\ result # "resolved" => pdfBuffer = <<>>)
  /\ [][/\ result # "pending" => (result' = result /\ pdfBuffer' = pdfBuffer)
        /\ (pc \in Drawing /\ pc' = "done") => Failed'
        /\ (result # "resolved" /\ result' = "resolved") =>
             (result = "pending" /\ pc = "flush" /\ Pending = 0)]_vars

\* the stream failed while the promise was pending, then still delivered every
\* chunk and 'end': the call stays rejected
C11_Witness ==
  /\ pc = "done"
  /\ result = "rejected"
  /\ Len(buffers) >= 6
  /\ buffers = doc.out

\* what call c returns when it is the only call
Alone(c) == ChunksOf(c, calls[c].pages)

\* C12: calls in flight together do not interfere: under every interleaving of
\* their stream events each call's accumulator holds only chunks of its own
\* document, in the order written, and each call resolves with the bytes it
\* returns when run alone.
C12_CallsDoNotInterfere ==
  \A c \in Callers :
    /\ IsPrefix(calls[c].buffers, Alone(c))
    /\ calls[c].state = "resolved" => calls[c].pdfBuffer = Alone(c)
    /\ calls[c].state # "resolved" => calls[c].pdfBuffer = <<>>

\* the second call resolved while the first, invoked and part delivered, is
\* still pending
C12_Witness ==
  /\ calls[2].state = "resolved"
  /\ calls[1].state = "pending"
  /\ calls[1].sent > 0
  /\ calls[1].sent < Len(calls[1].out)

\* the only response of a finished request
Response == responses[1]

Names(platform, name) ==
  /\ request.platform.kind = "string"
  /\ ToLowerCase(request.platform.chars) = name
  /\ request.profileUrl.given

\* C15: fetchMetrics never rejects; what it returns has a followerHistory and
\* a topPosts array; it is the result of the Instagram or TikTok integration
\* only when the platform names that integration and a profile URL is given,
\* and the synthetic metrics in every other case.
C15_FetchMetricsNeverRejects ==
  /\ ~metrics.rejected
  /\ metrics.fetched =>
       /\ DOMAIN metrics.bundle.followerHistory = 1..Len(metrics.bundle.followerHistory)
       /\ DOMAIN metrics.bundle.topPosts = 1..Len(metrics.bundle.topPosts)
       /\ metrics.bundle.via \in {"instagram", "instagram catch"} =>
            Names(request.platform, <<"i", "n", "s", "t", "a", "g", "r", "a", "m">>)
       /\ metrics.bundle.via \in {"tiktok", "tiktok catch"} =>
            Names(request.platform, <<"t", "i", "k", "t", "o", "k">>)

\* C16: every bundle fetchMetrics returns has at most 3 entries in topPosts.
C16_AtMostThreePosts ==
  metrics.fetched => Len(metrics.bundle.topPosts) <= 3

\* the request reached the TikTok page: the profile URL has a username and the
\* page came with an ok status
PageFetched ==
  /\ metrics.fetched
  /\ metrics.bundle.via \in {"tiktok", "tiktok catch"}
  /\ metrics.reply.kind = "html"
  /\ HasUsername(ParseTikTokUsername(request.profileUrl))

\* totalDays of the reporting period of the request
TotalDays ==
  MathMax(Num(1), DaysBetween(StartDate(request.since, EndDate(request.until)),
                              EndDate(request.until)))

NonDecreasing(series) == \A i \in 1..(Len(series) - 1) : series[i] <= series[i + 1]

\* C20: when the TikTok page fetch succeeds, the fallback series is returned
\* only if no followerCount was extracted; whenever one is extracted (0
\* included) the primary series is returned: totalDays + 1 samples, never
\* decreasing, never negative, the last equal to the extracted followerCount.
C20_PrimarySeriesWheneverExtracted ==
  PageFetched =>
    IF metrics.reply.match
      THEN /\ metrics.bundle.via = "tiktok"
           /\ metrics.bundle.series = "history"
           /\ IsNum(TotalDays)
           /\ Len(metrics.bundle.followerHistory) = TotalDays.n + 1
           /\ NonDecreasing(metrics.bundle.followerHistory)
           /\ \A i \in 1..Len(metrics.bundle.followerHistory) :
                metrics.bundle.followerHistory[i] >= 0
           /\ metrics.bundle.followerHistory[Len(metrics.bundle.followerHistory)] =
                metrics.reply.count
      ELSE /\ metrics.bundle.via = "tiktok"
           /\ metrics.bundle.series = "fallbackHistory"

\* commentLikeRatio is a number below 10
RatioBelowTen ==
  stats.commentLikeRatio.k = "num" /\ stats.commentLikeRatio.n < 10 * stats.commentLikeRatio.d

\* C17: the recommendations are, in this order, the growth-cadence message, at
\* most one engagement message, one comment-ratio message ('Comments are
\* relatively low' exactly when commentLikeRatio < 10, otherwise 'Good
\* balance') and the closing message, which is last: 3 or 4 entries.
C17_RecommendationsOrder ==
  RecommendationsBuilt =>
    LET n == Len(recommendations)
    IN  /\ n \in {3, 4}
        /\ recommendations[1] \in {"flat", "modest", "strong"}
        /\ n = 4 => recommendations[2] \in {"low", "high"}
        /\ recommendations[n - 1] = (IF RatioBelowTen THEN "comments_low" ELSE "balance")
        /\ recommendations[n] = "closing"
        /\ Occurrences(recommendations, "comments_low")
             + Occurrences(recommendations, "balance") = 1
        /\ Occurrences(recommendations, "closing") = 1

\* four recommendations: an engagement message, then 'Good balance', then the
\* closing message
C17_Witness ==
  /\ RecommendationsBuilt
  /\ Len(recommendations) = 4
  /\ ~RatioBelowTen
  /\ recommendations[3] = "balance"
  /\ recommendations[4] = "closing"

\* the operations of the growth chart, in drawing order
GrowthOps == SelectSeq(Flatten(Pages), LAMBDA o : o.sec = "growth")

GrowthPoints == SelectSeq(GrowthOps, LAMBDA o : o.op = "point")

GrowthAxes == SelectSeq(GrowthOps, LAMBDA o : o.op = "axis")

\* the step of the growth chart is behind
PastChart == pc \notin {"start", "create", "header", "summary", "chart"}

\* C18: with fewer than 2 samples nothing of the line chart is drawn, not even
\* its heading.  With N >= 2 samples, sample i is at x = left + i * (width /
\* (N - 1)) and y = top + height - ((count - min) / (max - min or 1)) *
\* height: every point is a number inside the chart box, the first sample on
\* its left edge and the last on its right edge, a sample equal to the maximum
\* (when max > min) on its top edge and one equal to the minimum on its bottom
\* edge.
C18_LineChartGeometry ==
  LET n == Len(followerHistory)
  IN  /\ n < 2 => GrowthOps = <<>>
      /\ (n >= 2 /\ PastChart) =>
           LET left == GrowthAxes[1].x1
               top == GrowthAxes[1].y1
               bottom == GrowthAxes[2].y2
               right == GrowthAxes[2].x2
               lo == MinCount(followerHistory)
               hi == MaxCount(followerHistory)
               range == IF hi > lo THEN hi - lo ELSE 1
           IN  /\ HasOp(Pages[1], "heading", "growth")
               /\ Len(GrowthPoints) = n
               /\ GrowthPoints[1].x = Num(left)
               /\ GrowthPoints[n].x = Num(right)
               /\ \A i \in 1..n :
                    LET p == GrowthPoints[i]
                    IN  /\ p.count = followerHistory[i]
                        /\ IsNum(p.x) /\ IsNum(p.y)
                        /\ p.x = JsAdd(Num(left), JsMul(Num(i - 1), Rat(right - left, n - 1)))
                        /\ p.y = JsSub(Num(bottom), JsMul(Rat(p.count - lo, range),
                                                          Num(bottom - top)))
                        /\ JsLe(Num(left), p.x) /\ JsLe(p.x, Num(right))
                        /\ JsLe(Num(top), p.y) /\ JsLe(p.y, Num(bottom))
                        /\ (p.count = hi /\ hi > lo) => p.y = Num(top)
                        /\ p.count = lo => p.y = Num(bottom)

\* a drawn chart whose second sample is the maximum, on the top edge, and whose
\* last sample is the minimum, on the bottom edge
C18_Witness ==
  /\ PastChart
  /\ followerHistory = <<100, 200, 98>>
  /\ Len(GrowthPoints) = 3
  /\ GrowthPoints[2].y = Num(GrowthAxes[1].y1)
  /\ GrowthPoints[3].y = Num(GrowthAxes[2].y2)
  /\ GrowthPoints[3].x = Num(GrowthAxes[2].x2)

\* the operations of the bar chart, in drawing order
BarChartOps == SelectSeq(Flatten(Pages), LAMBDA o : o.sec = "bar")

Bars == SelectSeq(BarChartOps, LAMBDA o : o.op = "bar")

BarLabels == SelectSeq(BarChartOps, LAMBDA o : o.op = "label")

BarAxes == SelectSeq(BarChartOps, LAMBDA o : o.op = "axis")

\* C19: in the grouped bar chart of a non-empty topPosts each bar's height is
\* value / M * chartHeight, M the largest of all likes and comments (1 when
\* that is 0): a height between 0 and chartHeight, chartHeight for the largest
\* value when it is positive, 0 for every bar when every value is 0.  Each
\* bar's bottom edge is the chart's bottom edge; post i has its likes bar at
\* x = left + i * (2 * barWidth + barGap), its comments bar right next to it,
\* and the index label i + 1.
C19_BarChartGeometry ==
  (Bars # <<>>) =>
    LET left == BarAxes[1].x1
        bottom == BarAxes[1].y2
        height == BarAxes[1].y2 - BarAxes[1].y1
        largest == LargestMetric(topPosts)
        M == IF largest > 0 THEN largest ELSE 1
    IN  /\ height = BarChartHeight * Pt
        /\ pc \in {"page3", "recs", "page4", "posts", "flush", "done"} =>
             (Len(Bars) = 2 * Len(topPosts) /\ Len(BarLabels) = Len(topPosts))
        /\ \A k \in 1..Len(Bars) :
             LET b == Bars[k]
                 post == topPosts[b.i + 1]
             IN  /\ b.i = (k - 1) \div 2
                 /\ b.kind = (IF k % 2 = 1 THEN "likes" ELSE "comments")
                 /\ b.value = (IF k % 2 = 1 THEN post.likes ELSE post.comments)
                 /\ IsNum(b.h)
                 /\ b.h = JsMul(Rat(b.value, M), Num(height))
                 /\ JsLe(Zero, b.h) /\ JsLe(b.h, Num(height))
                 /\ (b.value = largest /\ largest > 0) => b.h = Num(height)
                 /\ largest = 0 => b.h = Zero
                 /\ b.y = JsSub(Num(bottom), b.h)
                 /\ b.kind = "likes" => b.x = left + b.i * (2 * BarWidth + BarGap) * Pt
                 /\ b.kind = "comments" => b.x = Bars[k - 1].x + Bars[k - 1].w
        /\ \A k \in 1..Len(BarLabels) : BarLabels[k].label = k

\* a finished chart of two posts: the likes bar of the first has the full
\* height, the comments bar of the second has none
C19_Witness ==
  /\ pc = "page3"
  /\ Len(Bars) = 4
  /\ Bars[1].value > Bars[3].value
  /\ Bars[3].value > 0
  /\ Bars[1].h = Num(BarChartHeight * Pt)
  /\ Bars[4].h = Zero
  /\ Bars[3].x = Bars[1].x + (2 * BarWidth + BarGap) * Pt
====
